---- MODULE Spec2Model ----
(***************************************************************************)
(* The file store of gofileserver (src/internal/files/files.go): two Bolt  *)
(* buckets in one database file, UserFileBucket (userID -> JSON index of   *)
(* the user's files) and FileBucket (file ID -> raw bytes), and the four   *)
(* operations ListFilenames, GetFile, PutFile and DeleteFile.  Every       *)
(* operation opens the database file (an exclusive file lock, taken with   *)
(* no timeout), runs one Bolt transaction and closes the file again.       *)
(*                                                                         *)
(* Strings are sequences of bytes (0..255), as in Go.  A stored index      *)
(* record is the JSON text json.Marshal produced, modelled by the members  *)
(* of its "files" object in the order they are written.                    *)
(***************************************************************************)
EXTENDS Integers, Sequences, FiniteSets, TLC

VARIABLES
    UserFileBucket,   \* Bolt bucket USERDATA_BUCKET: userID -> stored index record
    FileBucket,       \* Bolt bucket FILES_BUCKET: file ID -> bytes
    nextID,           \* the next value uuid.New() returns (every value is fresh)
    dbLock,           \* the goroutine holding the lock of DB_NAME, or NoProc
    pc,               \* per goroutine: "idle", "open" (in bolt.Open), "tx" (database open)
    last,             \* the call that returned most recently, with its result
    UserBucket,       \* auth: Bolt bucket USER_BUCKET: username -> stored User
    TokenBucket,      \* auth: Bolt bucket TOKEN_BUCKET: access token -> stored Token
    req               \* per goroutine: the /files request it serves, once dispatched

\* the state of the request handlers and of the auth package
httpVars == <<UserBucket, TokenBucket, req>>

vars == <<UserFileBucket, FileBucket, nextID, dbLock, pc, last,
          UserBucket, TokenBucket, req>>

----------------------------------------------------------------------------
(* Bounds and input sets *)

\* uuid.New() is called at most MaxIDs times in a behaviour
MaxIDs == 2

Procs == {"p1", "p2"}
NoProc == "none"
\* the goroutines that make calls when the calls come one after the other
SeqProcs == {"p1"}

Users == {"u1", "u2"}

\* "a"
NameA == <<97>>
\* U+FFFD, the Unicode replacement character, in UTF-8
NameRep == <<239, 191, 189>>
\* a lone continuation byte: not valid UTF-8
Name80 == <<128>>
\* a byte that never occurs in UTF-8
NameFF == <<255>>

FileNames == {NameA, NameRep, Name80, NameFF}

\* what a caller uploads: content type "t" with one byte, and a content type
\* holding the byte 0xFF (not valid UTF-8) with two bytes
Payloads == {[contentType |-> <<116>>, bytes |-> <<1>>],
             [contentType |-> <<255>>, bytes |-> <<2, 3>>]}

\* the step at which a read-write transaction fails with a storage error: the
\* write of the index record, the write or delete of the bytes, the commit
Faults == {"none", "indexPut", "blobPut", "commit"}

----------------------------------------------------------------------------
(* encoding/json, as json.Marshal and json.Unmarshal treat UserData *)

IsCont(b) == b >= 128 /\ b <= 191

\* utf8.DecodeRuneInString(s[i:]): the size of the valid encoding that starts
\* at s[i], or 0 when it is invalid (Go then returns RuneError with size 1)
RuneSize(s, i) ==
    LET n == Len(s)
        b0 == s[i]
        b1 == IF i + 1 <= n THEN s[i + 1] ELSE 0
        b2 == IF i + 2 <= n THEN s[i + 2] ELSE 0
        b3 == IF i + 3 <= n THEN s[i + 3] ELSE 0
    IN  IF b0 < 128 THEN 1
        ELSE IF b0 >= 194 /\ b0 <= 223 THEN (IF IsCont(b1) THEN 2 ELSE 0)
        ELSE IF b0 = 224 THEN (IF b1 >= 160 /\ b1 <= 191 /\ IsCont(b2) THEN 3 ELSE 0)
        ELSE IF b0 = 237 THEN (IF b1 >= 128 /\ b1 <= 159 /\ IsCont(b2) THEN 3 ELSE 0)
        ELSE IF b0 >= 225 /\ b0 <= 239 THEN (IF IsCont(b1) /\ IsCont(b2) THEN 3 ELSE 0)
        ELSE IF b0 = 240 THEN (IF b1 >= 144 /\ b1 <= 191 /\ IsCont(b2) /\ IsCont(b3) THEN 4 ELSE 0)
        ELSE IF b0 >= 241 /\ b0 <= 243 THEN (IF IsCont(b1) /\ IsCont(b2) /\ IsCont(b3) THEN 4 ELSE 0)
        ELSE IF b0 = 244 THEN (IF b1 >= 128 /\ b1 <= 143 /\ IsCont(b2) /\ IsCont(b3) THEN 4 ELSE 0)
        ELSE 0

RECURSIVE JsonStringFrom(_, _)
\* The string a JSON string literal written by json.Marshal denotes when it is
\* read back: every rune is kept (escapes decode to the rune they stand for),
\* and every byte that is not part of a valid UTF-8 encoding is written as
\* the escape for U+FFFD, which reads back as U+FFFD.
JsonStringFrom(s, i) ==
    IF i > Len(s) THEN <<>>
    ELSE LET size == RuneSize(s, i)
         IN  IF size = 0
             THEN <<239, 191, 189>> \o JsonStringFrom(s, i + 1)
             ELSE SubSeq(s, i, i + size - 1) \o JsonStringFrom(s, i + size)

JsonString(s) == JsonStringFrom(s, 1)

\* a < b as Go compares strings: byte by byte
Less(a, b) ==
    LET n == IF Len(a) < Len(b) THEN Len(a) ELSE Len(b)
        D == {i \in 1..n : a[i] # b[i]}
    IN  IF D = {} THEN Len(a) < Len(b)
        ELSE LET d == CHOOSE i \in D : \A j \in D : i <= j
             IN  a[d] < b[d]

RECURSIVE SortKeys(_)
\* the keys of a map in the order json.Marshal writes them: sorted as Go strings
SortKeys(S) ==
    IF S = {} THEN <<>>
    ELSE LET m == CHOOSE x \in S : \A y \in S \ {x} : Less(x, y)
         IN  <<m>> \o SortKeys(S \ {m})

\* json.Marshal(userData): {"files":{name:{"id":..,"contentType":..,"contentLength":..},..}}
Marshal(files) ==
    LET keys == SortKeys(DOMAIN files)
    IN  [kind |-> "json",
         files |-> [i \in 1..Len(keys) |->
                      [name |-> JsonString(keys[i]),
                       id |-> files[keys[i]].ID,
                       contentType |-> JsonString(files[keys[i]].ContentType),
                       contentLength |-> files[keys[i]].ContentLength]]]

\* bytes json.Unmarshal rejects
CorruptValue == [kind |-> "corrupt", files |-> <<>>]

\* a bug: a record that fails to parse is taken for an empty index
CanUnmarshalAnything(v) == TRUE

\* json.Unmarshal(v, &userData) returns nil
CanUnmarshal(v) == v.kind = "json"

\* userData.Files after json.Unmarshal(v, &userData): a member that repeats an
\* earlier name replaces it
Unmarshal(v) ==
    LET names == {v.files[i].name : i \in DOMAIN v.files}
        at(n) == CHOOSE i \in DOMAIN v.files :
                    /\ v.files[i].name = n
                    /\ \A j \in DOMAIN v.files : v.files[j].name = n => j <= i
    IN  [n \in names |->
            [ID |-> v.files[at(n)].id,
             ContentType |-> v.files[at(n)].contentType,
             ContentLength |-> v.files[at(n)].contentLength]]

----------------------------------------------------------------------------
(* Bolt buckets and Go maps *)

\* Bucket.Put(k, v), and m[k] = v on a Go map
MapPut(m, k, v) == [x \in (DOMAIN m) \cup {k} |-> IF x = k THEN v ELSE m[x]]

\* Bucket.Delete(k), and delete(m, k) on a Go map: no error when k is absent
MapDelete(m, k) == [x \in (DOMAIN m) \ {k} |-> m[x]]

\* make(map[string]FileMetadata), and an empty bucket
EmptyMap == <<>>

\* a bug: the ID of a new file is not fresh
NewIDReused(nid) == 1

\* uuid.New().String(): a value never returned before
NewID(nid) == nid

\* the FileMetadata PutFile stores for a file name the user does not have yet
NewFileMetadata(nid, contentType, bytes) ==
    [ID |-> NewID(nid), ContentType |-> contentType, ContentLength |-> Len(bytes)]

\* a bug: an overwrite keeps the ContentLength of the bytes it replaces
UpdateKeepsLength(fileMetadata, contentType, bytes) ==
    [fileMetadata EXCEPT !.ContentType = contentType]

\* the FileMetadata PutFile stores for a file name the user has already
UpdateFileMetadata(fileMetadata, contentType, bytes) ==
    [fileMetadata EXCEPT !.ContentType = contentType, !.ContentLength = Len(bytes)]

\* a bug: the entry stays in the index
DeleteEntryKeeps(Files, filename) == Files

\* delete(userData.Files, filename) in DeleteFile
DeleteEntry(Files, filename) == MapDelete(Files, filename)

\* a bug: the bytes stay in FileBucket
DeleteBlobSkipped(fb, fileID) == fb

\* filesBucket.Delete([]byte(fileID)) in DeleteFile
DeleteBlob(fb, fileID) == MapDelete(fb, fileID)

----------------------------------------------------------------------------
(* The transactions.  A database is the pair of buckets [ufb, fb]. *)

\* a bug: the writes made before the error stay in the database
RollbackKeepsWrites(pre, work) == work

\* db.Update when the closure or the commit returns an error: the transaction
\* is rolled back, the database keeps what it held when the transaction began
Rollback(pre, work) == pre

\* a bug: a record without files is removed instead of written
StoreIndexDropsEmpty(ufb, userID, encoded) ==
    IF encoded.files = <<>> THEN MapDelete(ufb, userID) ELSE MapPut(ufb, userID, encoded)

\* userFilesBucket.Put([]byte(userID), encoded)
StoreIndex(ufb, userID, encoded) == MapPut(ufb, userID, encoded)

\* a bug: DeleteFile leaves a record without files for a user that had none
DeleteAbsentUserCreates(pre, userID) ==
    [err |-> "nil", db |-> [pre EXCEPT !.ufb = MapPut(pre.ufb, userID, Marshal(EmptyMap))],
     fileID |-> 0]

\* DeleteFile when userFilesBucket.Get returns nil: the closure returns nil
\* without a write
DeleteAbsentUser(pre, userID) == [err |-> "nil", db |-> pre, fileID |-> 0]

\* the closure of db.View in ListFilenames: the error it returns and the
\* filenames it appended
ListFilenamesView(ufb, userID) ==
    IF userID \notin DOMAIN ufb
    THEN [err |-> "user not found", filenames |-> {}]
    ELSE IF ~CanUnmarshal(ufb[userID])
    THEN [err |-> "corrupt", filenames |-> {}]
    ELSE [err |-> "nil", filenames |-> DOMAIN Unmarshal(ufb[userID])]

\* ListFilenames(userID): the names, in no particular order (a Go map range);
\* the error of db.View is assigned and never read
ListFilenamesResult(ufb, userID) == ListFilenamesView(ufb, userID).filenames

\* a bug: filenames is returned as the closure left it, nil when nothing was
\* appended to it
MakeIfNilSkipped(filenames) == [isNil |-> filenames = {}, names |-> filenames]

\* if filenames == nil { filenames = make([]string, 0) }
MakeIfNil(filenames) == [isNil |-> FALSE, names |-> filenames]

\* the slice ListFilenames(userID) returns: whether it is nil, and its names
ListFilenamesSlice(ufb, userID) == MakeIfNil(ListFilenamesView(ufb, userID).filenames)

\* the closure of db.View in GetFile
GetFileView(ufb, fb, userID, filename) ==
    IF userID \notin DOMAIN ufb
    THEN [err |-> "user not found", bytes |-> <<>>, contentType |-> <<>>]
    ELSE IF ~CanUnmarshal(ufb[userID])
    THEN [err |-> "corrupt", bytes |-> <<>>, contentType |-> <<>>]
    ELSE LET Files == Unmarshal(ufb[userID])
         IN  IF filename \notin DOMAIN Files
             THEN [err |-> "file not found", bytes |-> <<>>, contentType |-> <<>>]
             ELSE LET fileMetadata == Files[filename]
                      \* Bucket.Get returns nil for a missing key: a copy of length 0
                      bucketBytes == IF fileMetadata.ID \in DOMAIN fb
                                     THEN fb[fileMetadata.ID] ELSE <<>>
                  IN  [err |-> "nil", bytes |-> bucketBytes,
                       contentType |-> fileMetadata.ContentType]

\* a bug: present tells whether the user has a record
GetFileResultKnownUser(ufb, fb, userID, filename) ==
    LET r == GetFileView(ufb, fb, userID, filename)
    IN  [bytes |-> r.bytes, contentType |-> r.contentType,
         present |-> (r.err # "user not found")]

\* GetFile(userID, filename): (bytes, contentType, present)
GetFileResult(ufb, fb, userID, filename) ==
    LET r == GetFileView(ufb, fb, userID, filename)
    IN  [bytes |-> r.bytes, contentType |-> r.contentType, present |-> (r.err = "nil")]

\* PutFile's db.Update: the error PutFile returns, the database afterwards, the
\* next fresh ID, and the ID the bytes were written under (0: none written)
PutFileTx(ufb, fb, nid, userID, filename, contentType, bytes, fault) ==
    LET pre == [ufb |-> ufb, fb |-> fb]
    IN  IF userID \in DOMAIN ufb /\ ~CanUnmarshal(ufb[userID])
        THEN [err |-> "corrupt", db |-> Rollback(pre, pre), nid |-> nid, fileID |-> 0]
        ELSE
        LET Files0 == IF userID \in DOMAIN ufb THEN Unmarshal(ufb[userID]) ELSE EmptyMap
            present == filename \in DOMAIN Files0
            fileMetadata ==
                IF present
                THEN UpdateFileMetadata(Files0[filename], contentType, bytes)
                ELSE NewFileMetadata(nid, contentType, bytes)
            Files == MapPut(Files0, filename, fileMetadata)
            nid1 == IF present THEN nid ELSE nid + 1
            encoded == Marshal(Files)
            w1 == [pre EXCEPT !.ufb = StoreIndex(ufb, userID, encoded)]
            w2 == [w1 EXCEPT !.fb = MapPut(fb, Files[filename].ID, bytes)]
        IN  CASE fault = "indexPut" ->
                   [err |-> "storage", db |-> Rollback(pre, pre), nid |-> nid1, fileID |-> 0]
              [] fault = "blobPut" ->
                   [err |-> "storage", db |-> Rollback(pre, w1), nid |-> nid1, fileID |-> 0]
              [] fault = "commit" ->
                   [err |-> "storage", db |-> Rollback(pre, w2), nid |-> nid1, fileID |-> 0]
              [] OTHER ->
                   [err |-> "nil", db |-> w2, nid |-> nid1, fileID |-> Files[filename].ID]

\* DeleteFile's db.Update: the error DeleteFile returns, the database afterwards
\* and the ID whose bytes were deleted (0: none)
DeleteFileTx(ufb, fb, userID, filename, fault) ==
    LET pre == [ufb |-> ufb, fb |-> fb]
    IN  IF userID \notin DOMAIN ufb
        THEN \* the closure returns nil and the empty transaction is committed
             IF fault = "commit"
             THEN [err |-> "storage", db |-> Rollback(pre, pre), fileID |-> 0]
             ELSE DeleteAbsentUser(pre, userID)
        ELSE IF ~CanUnmarshal(ufb[userID])
        THEN [err |-> "corrupt", db |-> Rollback(pre, pre), fileID |-> 0]
        ELSE
        LET Files0 == Unmarshal(ufb[userID])
        IN  IF filename \notin DOMAIN Files0
            THEN [err |-> "file not found", db |-> Rollback(pre, pre), fileID |-> 0]
            ELSE
            LET fileID == Files0[filename].ID
                Files == DeleteEntry(Files0, filename)
                encoded == Marshal(Files)
                w1 == [pre EXCEPT !.ufb = StoreIndex(ufb, userID, encoded)]
                w2 == [w1 EXCEPT !.fb = DeleteBlob(fb, fileID)]
            IN  CASE fault = "indexPut" ->
                       [err |-> "storage", db |-> Rollback(pre, pre), fileID |-> 0]
                  [] fault = "blobPut" ->
                       [err |-> "storage", db |-> Rollback(pre, w1), fileID |-> 0]
                  [] fault = "commit" ->
                       [err |-> "storage", db |-> Rollback(pre, w2), fileID |-> 0]
                  [] OTHER ->
                       [err |-> "nil", db |-> w2, fileID |-> fileID]

----------------------------------------------------------------------------
(* The auth package: users and session tokens, in a database file of its own *)

\* "ann", "bob" and "a!"
Usernames == {<<97, 110, 110>>, <<98, 111, 98>>, <<97, 33>>}
\* the passwords users register with: "12345678" and "1"
RegisterPasswords == {<<49, 50, 51, 52, 53, 54, 55, 56>>, <<49>>}
\* the passwords users log in with: "12345678" and "87654321"
LoginPasswords == {<<49, 50, 51, 52, 53, 54, 55, 56>>, <<56, 55, 54, 53, 52, 51, 50, 49>>}
\* the values uuid.New() gives as access tokens
Tokens == {"t1", "t2"}

\* the regular expression [^A-Za-z0-9]+ does not match: digits and letters only
Alphanumeric(s) ==
    \A i \in 1..Len(s) :
        \/ s[i] >= 48 /\ s[i] <= 57
        \/ s[i] >= 65 /\ s[i] <= 90
        \/ s[i] >= 97 /\ s[i] <= 122

\* hashPassword: SHA-256 in hex, kept as the password it is the hash of (equal
\* hashes for equal passwords only)
hashPassword(password) == [sha256 |-> password]

\* uuid.New() for a new user: an ID no user has
NewUserID(ub) == CHOOSE id \in Users : \A n \in DOMAIN ub : ub[n].id # id

\* uuid.New() for a login: a token no session has
NewToken(tb) == CHOOSE t \in Tokens : t \notin DOMAIN tb

\* CreateUser(user): the error it returns and USER_BUCKET afterwards
CreateUserTx(ub, username, password) ==
    IF Len(username) < 3 \/ Len(username) > 20 \/ ~Alphanumeric(username)
    THEN [err |-> "username must be 3 to 20 alphanumeric characters", ub |-> ub]
    ELSE IF Len(password) < 8
    THEN [err |-> "password must be at least 8 characters", ub |-> ub]
    ELSE IF username \in DOMAIN ub
    THEN [err |-> "username already taken", ub |-> ub]
    ELSE [err |-> "nil",
          ub |-> MapPut(ub, username,
                        [kind |-> "json", id |-> NewUserID(ub), username |-> username,
                         password |-> hashPassword(password)])]

\* a stored Token that json.Unmarshal rejects
CorruptTokenValue == [kind |-> "corrupt", token |-> "", user |-> ""]

\* Login(user): the token and the error it returns, TOKEN_BUCKET afterwards
LoginTx(ub, tb, username, password) ==
    IF username \notin DOMAIN ub
    THEN [accessToken |-> "", err |-> "authentication failed", tb |-> tb]
    ELSE IF ub[username].password # hashPassword(password)
    THEN [accessToken |-> "", err |-> "authentication failed", tb |-> tb]
    ELSE LET accessToken == NewToken(tb)
         IN  [accessToken |-> accessToken, err |-> "nil",
              tb |-> MapPut(tb, accessToken,
                            [kind |-> "json", token |-> accessToken,
                             user |-> ub[username].id])]

\* a bug: a token without a stored session is taken as the session of nobody
ValidateTokenAcceptsUnknown(tb, accessToken) ==
    IF accessToken \in DOMAIN tb /\ tb[accessToken].kind = "json"
    THEN [userID |-> tb[accessToken].user, err |-> "nil"]
    ELSE [userID |-> "", err |-> "nil"]

\* ValidateToken(accessToken): (userID, err)
ValidateToken(tb, accessToken) ==
    IF accessToken = ""
    THEN [userID |-> "", err |-> "invalid accessToken"]
    ELSE IF accessToken \notin DOMAIN tb
    THEN [userID |-> "", err |-> "invalid accessToken"]
    ELSE IF tb[accessToken].kind # "json"
    THEN [userID |-> "", err |-> "invalid accessToken (failed parsing JSON from database)"]
    ELSE [userID |-> tb[accessToken].user, err |-> "nil"]

----------------------------------------------------------------------------
(* The state machine *)

\* no /files request is being served
NoRequest ==
    [token |-> "", userID |-> "", method |-> "", path |-> <<>>,
     contentType |-> <<>>, body |-> <<>>]

NoCall ==
    [proc |-> NoProc, op |-> "none", userID |-> "", filename |-> <<>>,
     contentType |-> <<>>, bytes |-> <<>>, err |-> "nil", fault |-> "none",
     fileID |-> 0, inflight |-> {}, prevPutID |-> 0, conc |-> FALSE]

\* a PutFile or DeleteFile that returned an error, as last keeps it: with the
\* step that failed for a storage error, with the user otherwise
FailedCall(op, userID, err, fault) ==
    IF err = "storage"
    THEN [NoCall EXCEPT !.op = op, !.err = err, !.fault = fault]
    ELSE [NoCall EXCEPT !.op = op, !.err = err, !.userID = userID]

\* init(): both buckets exist and are empty
Init ==
    /\ UserFileBucket = EmptyMap
    /\ FileBucket = EmptyMap
    /\ nextID = 1
    /\ dbLock = NoProc
    /\ pc = [p \in Procs |-> "idle"]
    /\ last = NoCall
    /\ UserBucket = EmptyMap
    /\ TokenBucket = EmptyMap
    /\ req = [p \in Procs |-> NoRequest]

\* a request handler calls one of the four operations
Call(p) ==
    /\ pc[p] = "idle"
    /\ pc' = [pc EXCEPT ![p] = "open"]
    /\ UNCHANGED <<UserFileBucket, FileBucket, nextID, dbLock, last>>
    /\ UNCHANGED httpVars

\* bolt.Open(DB_NAME, 0600, nil) returns: the file lock was free
Open(p) ==
    /\ pc[p] = "open"
    /\ dbLock = NoProc
    /\ dbLock' = p
    /\ pc' = [pc EXCEPT ![p] = "tx"]
    /\ UNCHANGED <<UserFileBucket, FileBucket, nextID, last>>
    /\ UNCHANGED httpVars

\* a bug: the call returns without closing the database, the lock stays taken
ReturnKeepsLock(p, r) ==
    /\ dbLock' = dbLock
    /\ pc' = [pc EXCEPT ![p] = "idle"]
    /\ last' = [r EXCEPT !.proc = p]
    /\ UNCHANGED httpVars

\* the deferred db.Close() and the return of the call.  r is the call as last
\* keeps it: all its arguments are kept when it wrote to the database
Return(p, r) ==
    /\ dbLock' = NoProc
    /\ pc' = [pc EXCEPT ![p] = "idle"]
    /\ last' = [r EXCEPT
                  !.proc = p,
                  \* the calls still in progress when this one returns
                  !.inflight = {q \in (DOMAIN pc) \ {p} : pc[q] # "idle"},
                  \* when this call wrote and the call that returned just
                  \* before was a successful PutFile of the same user and file
                  \* name: the ID that PutFile stored the bytes under
                  !.prevPutID = IF /\ r.err = "nil" /\ r.op \in {"put", "delete"}
                                   /\ last.op = "put" /\ last.err = "nil"
                                   /\ last.userID = r.userID
                                   /\ last.filename = r.filename
                                THEN last.fileID ELSE 0,
                  \* this call was in progress when the previous one returned
                  !.conc = p \in last.inflight]
    \* the request handler has served its request
    /\ req' = [req EXCEPT ![p] = NoRequest]
    /\ UNCHANGED <<UserBucket, TokenBucket>>

ListFilenames(p, userID) ==
    /\ pc[p] = "tx" /\ dbLock = p
    /\ Return(p, [NoCall EXCEPT !.op = "list", !.userID = userID])
    /\ UNCHANGED <<UserFileBucket, FileBucket, nextID>>

GetFile(p, userID, filename) ==
    /\ pc[p] = "tx" /\ dbLock = p
    /\ Return(p, [NoCall EXCEPT !.op = "get", !.userID = userID])
    /\ UNCHANGED <<UserFileBucket, FileBucket, nextID>>

PutFile(p, userID, filename, contentType, bytes, fault) ==
    /\ pc[p] = "tx" /\ dbLock = p
    /\ \E r \in {PutFileTx(UserFileBucket, FileBucket, nextID, userID, filename,
                          contentType, bytes, fault)} :
           /\ fault = "none" \/ r.err = "storage"
           /\ r.nid <= MaxIDs + 1
           /\ UserFileBucket' = r.db.ufb
           /\ FileBucket' = r.db.fb
           /\ nextID' = r.nid
           /\ Return(p, IF r.err = "nil"
                        THEN [NoCall EXCEPT !.op = "put", !.userID = userID,
                                 !.filename = filename, !.contentType = contentType,
                                 !.bytes = bytes, !.fileID = r.fileID]
                        ELSE FailedCall("put", userID, r.err, fault))

DeleteFile(p, userID, filename, fault) ==
    /\ pc[p] = "tx" /\ dbLock = p
    /\ \E r \in {DeleteFileTx(UserFileBucket, FileBucket, userID, filename, fault)} :
           /\ fault = "none" \/ r.err = "storage"
           /\ UserFileBucket' = r.db.ufb
           /\ FileBucket' = r.db.fb
           /\ Return(p, IF r.err = "nil"
                        THEN [NoCall EXCEPT !.op = "delete", !.userID = userID,
                                 !.filename = filename, !.fileID = r.fileID]
                        ELSE FailedCall("delete", userID, r.err, fault))
    /\ UNCHANGED nextID

\* the calls come one after the other
Next ==
    \E p \in SeqProcs :
        \/ Call(p)
        \/ Open(p)
        \/ \E u \in Users : ListFilenames(p, u)
        \/ \E u \in Users, f \in FileNames : GetFile(p, u, f)
        \/ \E u \in Users, f \in FileNames, pl \in Payloads, fault \in Faults :
              PutFile(p, u, f, pl.contentType, pl.bytes, fault)
        \/ \E u \in Users, f \in FileNames, fault \in Faults : DeleteFile(p, u, f, fault)

Spec == Init /\ [][Next]_vars

\* the database file is damaged from outside the program: the record of a user
\* is replaced by bytes that are no JSON
CorruptRecord(userID) ==
    /\ dbLock = NoProc
    /\ UserFileBucket' = MapPut(UserFileBucket, userID, CorruptValue)
    /\ UNCHANGED <<FileBucket, nextID, dbLock, pc, last>>
    /\ UNCHANGED httpVars

\* the names and the faults used beside a damaged record
CorruptFileNames == {NameA, NameFF}
CorruptFaults == {"none", "commit"}

NextCorrupt ==
    \/ \E p \in SeqProcs :
        \/ Call(p)
        \/ Open(p)
        \/ \E u \in Users : ListFilenames(p, u)
        \/ \E u \in Users, f \in CorruptFileNames : GetFile(p, u, f)
        \/ \E u \in Users, f \in CorruptFileNames, pl \in Payloads,
              fault \in CorruptFaults :
              PutFile(p, u, f, pl.contentType, pl.bytes, fault)
        \/ \E u \in Users, f \in CorruptFileNames, fault \in CorruptFaults :
              DeleteFile(p, u, f, fault)
    \/ \E u \in Users : CorruptRecord(u)

SpecCorrupt == Init /\ [][NextCorrupt]_vars

\* the user and the names the concurrent callers use
ConcUsers == {"u1"}
ConcFileNames == {NameA, NameRep, NameFF}

\* calls of several request handlers at the same time
NextConc ==
    \E p \in Procs :
        \/ Call(p)
        \/ Open(p)
        \/ \E u \in ConcUsers : ListFilenames(p, u)
        \/ \E u \in ConcUsers, f \in ConcFileNames : GetFile(p, u, f)
        \/ \E u \in ConcUsers, f \in ConcFileNames, pl \in Payloads :
              PutFile(p, u, f, pl.contentType, pl.bytes, "none")
        \/ \E u \in ConcUsers, f \in ConcFileNames : DeleteFile(p, u, f, "none")

SpecConc == Init /\ [][NextConc]_vars

\* the name the concurrent callers of different users use
TwoUserFileNames == {NameA}

\* calls of several request handlers at the same time, for different users
NextTwoUsers ==
    \E p \in Procs :
        \/ Call(p)
        \/ Open(p)
        \/ \E u \in Users : ListFilenames(p, u)
        \/ \E u \in Users, f \in TwoUserFileNames : GetFile(p, u, f)
        \/ \E u \in Users, f \in TwoUserFileNames, pl \in Payloads :
              PutFile(p, u, f, pl.contentType, pl.bytes, "none")
        \/ \E u \in Users, f \in TwoUserFileNames : DeleteFile(p, u, f, "none")

SpecTwoUsers == Init /\ [][NextTwoUsers]_vars

\* the goroutines of a finite set of calls
LiveProcs == {"p1", "p2", "p3"}

\* a finite set of calls invoked together: every goroutine has made its one
\* call and is at bolt.Open
InitLive ==
    /\ UserFileBucket = EmptyMap
    /\ FileBucket = EmptyMap
    /\ nextID = 1
    /\ dbLock = NoProc
    /\ pc = [p \in LiveProcs |-> "open"]
    /\ last = NoCall
    /\ UserBucket = EmptyMap
    /\ TokenBucket = EmptyMap
    /\ req = [p \in LiveProcs |-> NoRequest]

\* the transaction of the call of p, whatever the operation and its arguments
Run(p) ==
    \/ \E u \in Users : ListFilenames(p, u)
    \/ \E u \in Users, f \in TwoUserFileNames : GetFile(p, u, f)
    \/ \E u \in Users, f \in TwoUserFileNames, pl \in Payloads :
          PutFile(p, u, f, pl.contentType, pl.bytes, "none")
    \/ \E u \in Users, f \in TwoUserFileNames : DeleteFile(p, u, f, "none")

NextLive == \E p \in LiveProcs : Open(p) \/ Run(p)

\* fair scheduling: a goroutine that can go on does go on.  bolt.Open retries
\* the file lock until it gets it, so it returns once the lock stays free; a
\* transaction has no loop and no wait
SpecLive ==
    /\ InitLive /\ [][NextLive]_vars
    /\ \A p \in LiveProcs : WF_vars(Open(p)) /\ WF_vars(Run(p))

----------------------------------------------------------------------------
(* The request handlers of gofileserver.go *)

MAX_FILE_UPLOAD == 1048576

HttpMethods == {"GET", "PUT", "DELETE", "POST"}
\* the URL path after the prefix /files: "", "/" and "/a"
UrlPaths == {<<>>, <<47>>, <<47, 97>>}
\* the X-Session header: missing, a token Login may give, a token it never gives
SessionHeaders == {"", "t1", "t2", "zz"}
\* the Content-Length header: whether strconv.Atoi reads it, and the number
ContentLengthHeaders ==
    {[ok |-> FALSE, n |-> 0], [ok |-> TRUE, n |-> 0], [ok |-> TRUE, n |-> 1],
     [ok |-> TRUE, n |-> 2]}

\* what a PUT request uploads
HttpPayloads == {[contentType |-> <<116>>, bytes |-> <<1>>]}

\* the requests to /files: a PUT with a body, the others without
FileRequests ==
    {[method |-> "PUT", urlPath |-> u, token |-> t, contentType |-> pl.contentType,
      body |-> pl.bytes, contentLength |-> cl] :
        u \in UrlPaths, t \in SessionHeaders, pl \in HttpPayloads,
        cl \in ContentLengthHeaders}
    \cup
    {[method |-> m, urlPath |-> u, token |-> t, contentType |-> <<>>,
      body |-> <<>>, contentLength |-> [ok |-> FALSE, n |-> 0]] :
        m \in HttpMethods \ {"PUT"}, u \in UrlPaths, t \in SessionHeaders}

\* doFiles: path := r.URL.Path, without its first byte when it has one
TrimLeading(path) == IF Len(path) > 0 THEN Tail(path) ELSE path

\* doFilesPut before it calls PutFile: the status it answers, 0 when it goes on
PutChecks(r) ==
    IF ~r.contentLength.ok THEN 400
    ELSE IF r.contentLength.n = 0 THEN 400
    ELSE IF r.contentLength.n > MAX_FILE_UPLOAD THEN 400
    ELSE IF r.contentLength.n # Len(r.body) THEN 400
    ELSE 0

\* doFiles with the result v of ValidateToken: the status it answers without a
\* file operation, 0 when it calls one
Dispatch(v, r) ==
    IF v.err # "nil" THEN 403
    ELSE IF r.method = "GET" THEN 0
    ELSE IF r.method = "PUT" THEN PutChecks(r)
    ELSE IF r.method = "DELETE" THEN 0
    ELSE 405

\* doRegister: the status it answers.  parsed tells whether the body is the
\* JSON of a User, err is what CreateUser returned
RegisterStatus(parsed, err) ==
    IF ~parsed THEN 400 ELSE IF err # "nil" THEN 400 ELSE 204

\* doLogin: the status it answers
LoginStatus(parsed, err) ==
    IF ~parsed THEN 400 ELSE IF err # "nil" THEN 403 ELSE 200

doRegister(username, password, parsed) ==
    /\ \E r \in {CreateUserTx(UserBucket, username, password)} :
          UserBucket' = IF RegisterStatus(parsed, r.err) = 204 THEN r.ub ELSE UserBucket
    /\ UNCHANGED <<UserFileBucket, FileBucket, nextID, dbLock, pc, last, TokenBucket, req>>

doLogin(username, password, parsed) ==
    /\ Tokens \ DOMAIN TokenBucket # {}
    /\ \E r \in {LoginTx(UserBucket, TokenBucket, username, password)} :
          TokenBucket' = IF LoginStatus(parsed, r.err) = 200 THEN r.tb ELSE TokenBucket
    /\ UNCHANGED <<UserFileBucket, FileBucket, nextID, dbLock, pc, last, UserBucket, req>>

\* the auth database is damaged from outside the program: the stored session of
\* a token is replaced by bytes that are no JSON
CorruptToken(t) ==
    /\ t \in DOMAIN TokenBucket
    /\ TokenBucket' = MapPut(TokenBucket, t, CorruptTokenValue)
    /\ UNCHANGED <<UserFileBucket, FileBucket, nextID, dbLock, pc, last, UserBucket, req>>

\* doFiles up to the transaction of the file operation it calls, bolt.Open
\* included (the requests come one after the other, the file lock is free); a
\* request it answers itself (403, 400, 405) changes nothing
doFiles(p, r) ==
    /\ pc[p] = "idle" /\ dbLock = NoProc
    /\ \E v \in {ValidateToken(TokenBucket, r.token)} :
          IF Dispatch(v, r) = 0
          THEN /\ pc' = [pc EXCEPT ![p] = "tx"]
               /\ dbLock' = p
               /\ req' = [req EXCEPT ![p] =
                            [token |-> r.token, userID |-> v.userID, method |-> r.method,
                             path |-> TrimLeading(r.urlPath),
                             contentType |-> r.contentType, body |-> r.body]]
          ELSE UNCHANGED <<pc, dbLock, req>>
    /\ UNCHANGED <<UserFileBucket, FileBucket, nextID, last, UserBucket, TokenBucket>>

doFilesList(p) ==
    /\ req[p].method = "GET" /\ req[p].path = <<>>
    /\ ListFilenames(p, req[p].userID)

doFilesGet(p) ==
    /\ req[p].method = "GET" /\ req[p].path # <<>>
    /\ GetFile(p, req[p].userID, req[p].path)

doFilesPut(p) ==
    /\ req[p].method = "PUT"
    /\ PutFile(p, req[p].userID, req[p].path, req[p].contentType, req[p].body, "none")

doFilesDelete(p) ==
    /\ req[p].method = "DELETE"
    /\ DeleteFile(p, req[p].userID, req[p].path, "none")

NextHttp ==
    \/ \E username \in Usernames, password \in RegisterPasswords, parsed \in BOOLEAN :
          doRegister(username, password, parsed)
    \/ \E username \in Usernames, password \in LoginPasswords, parsed \in BOOLEAN :
          doLogin(username, password, parsed)
    \/ \E t \in Tokens : CorruptToken(t)
    \/ \E p \in SeqProcs :
          \/ \E r \in FileRequests : doFiles(p, r)
          \/ doFilesList(p)
          \/ doFilesGet(p)
          \/ doFilesPut(p)
          \/ doFilesDelete(p)

SpecHttp == Init /\ [][NextHttp]_vars

----------------------------------------------------------------------------
(* What a caller observes in the current state *)

ListNow(u) == ListFilenamesResult(UserFileBucket, u)
GetNow(u, f) == GetFileResult(UserFileBucket, FileBucket, u, f)

\* the members of the stored record of u (none when there is no record)
Members(ufb, u) ==
    IF u \in DOMAIN ufb THEN {ufb[u].files[i] : i \in DOMAIN ufb[u].files} ELSE {}

\* the last step was the return of a call
Returned == \E p \in Procs : pc[p] = "tx" /\ pc'[p] = "idle"

----------------------------------------------------------------------------
(* The claims *)

\* C1: in every reachable state, every ID that appears in a member of any
\* user's index record is a key of FileBucket.
C1_ReferentialIntegrity ==
    \A u \in Users : \A m \in Members(UserFileBucket, u) : m.id \in DOMAIN FileBucket

\* a DeleteFile has just removed one file while another file is still indexed
C1_Witness ==
    /\ last.op = "delete" /\ last.err = "nil" /\ last.fileID # 0
    /\ \E u \in Users : Members(UserFileBucket, u) # {}

\* C2: right after a successful PutFile(u, f, contentType, bytes), GetFile(u, f)
\* returns present = true with the same bytes and the same contentType.
C2_RoundTrip ==
    (last.op = "put" /\ last.err = "nil") =>
        GetNow(last.userID, last.filename) =
            [bytes |-> last.bytes, contentType |-> last.contentType, present |-> TRUE]

\* C3: right after a successful PutFile(u, f, ct2, b2) that directly follows a
\* successful PutFile(u, f, ct1, b1), GetFile(u, f) returns (b2, ct2) and
\* ListFilenames(u) holds exactly one entry named f.
C3_Overwrite ==
    (last.op = "put" /\ last.err = "nil" /\ last.prevPutID # 0) =>
        /\ GetNow(last.userID, last.filename) =
              [bytes |-> last.bytes, contentType |-> last.contentType, present |-> TRUE]
        /\ Cardinality({n \in ListNow(last.userID) : n = last.filename}) = 1

\* C4: right after a successful DeleteFile(u, f) that directly follows a
\* successful PutFile(u, f, ..), ListFilenames(u) does not hold f, GetFile(u, f)
\* returns present = false, and the ID the PutFile stored the bytes under, which
\* is the ID the DeleteFile removed, is no key of FileBucket.
C4_DeleteRemoves ==
    (last.op = "delete" /\ last.err = "nil" /\ last.prevPutID # 0) =>
        /\ last.filename \notin ListNow(last.userID)
        /\ ~GetNow(last.userID, last.filename).present
        /\ last.fileID = last.prevPutID
        /\ last.prevPutID \notin DOMAIN FileBucket

C4_Witness ==
    last.op = "delete" /\ last.err = "nil" /\ last.prevPutID # 0

\* what DeleteFile(u, f) would return and do to u's record and to FileBucket
DeleteOutcome(ufb, fb, u, f) ==
    LET d == DeleteFileTx(ufb, fb, u, f, "none")
    IN  [err |-> d.err, fileID |-> d.fileID, record |-> Members(d.db.ufb, u),
         hasRecord |-> u \in DOMAIN d.db.ufb, fb |-> d.db.fb]

\* C5: a PutFile or DeleteFile of user u1 that commits (one that fails changes
\* nothing at all, C6) leaves, for every other user u2, the
\* index record of u2 and the bytes under every ID of u2's record unchanged, and
\* with them the results of ListFilenames(u2) and GetFile(u2, f) and what
\* DeleteFile(u2, f) returns, removes and leaves in u2's record.
C5_Isolation ==
    [][(Returned /\ last'.op \in {"put", "delete"} /\ last'.err = "nil") =>
         \A u2 \in Users \ {last'.userID} :
            /\ (u2 \in DOMAIN UserFileBucket') = (u2 \in DOMAIN UserFileBucket)
            /\ u2 \in DOMAIN UserFileBucket => UserFileBucket'[u2] = UserFileBucket[u2]
            /\ \A m \in Members(UserFileBucket, u2) :
                  /\ m.id \in DOMAIN FileBucket'
                  /\ FileBucket'[m.id] = FileBucket[m.id]
            /\ ListFilenamesResult(UserFileBucket', u2) = ListFilenamesResult(UserFileBucket, u2)
            /\ \A f \in FileNames :
                  /\ GetFileResult(UserFileBucket', FileBucket', u2, f)
                        = GetFileResult(UserFileBucket, FileBucket, u2, f)
                  /\ [DeleteOutcome(UserFileBucket', FileBucket', u2, f)
                        EXCEPT !.fb = EmptyMap]
                        = [DeleteOutcome(UserFileBucket, FileBucket, u2, f)
                             EXCEPT !.fb = EmptyMap]
      ]_vars

\* a user has just stored a file under a name another user has a file under
C5_Witness ==
    /\ last.op = "put" /\ last.err = "nil"
    /\ \E u2 \in Users \ {last.userID} : last.filename \in ListNow(u2)

\* C6: a PutFile or DeleteFile that fails inside its transaction returns an
\* error and leaves both buckets as they were before the call.
C6_Atomicity ==
    [][(Returned /\ last'.op \in {"put", "delete"} /\ last'.err # "nil") =>
         /\ UserFileBucket' = UserFileBucket
         /\ FileBucket' = FileBucket
      ]_vars

\* a PutFile has just failed at the write of the bytes, after its write of the
\* index record, in a database that holds files
C6_Witness ==
    /\ last.op = "put" /\ last.err = "storage" /\ last.fault = "blobPut"
    /\ \E u \in Users : Members(UserFileBucket, u) # {}

\* the decoded index of u holds f, and its descriptor and the bytes under its ID
\* are those of one PutFile(u, f, contentType, bytes)
StoredFrom(ufb, fb, u, f, contentType, bytes) ==
    /\ u \in DOMAIN ufb /\ CanUnmarshal(ufb[u])
    /\ f \in DOMAIN Unmarshal(ufb[u])
    /\ LET fileMetadata == Unmarshal(ufb[u])[f]
       IN  /\ fileMetadata.ContentType = contentType
           /\ fileMetadata.ContentLength = Len(bytes)
           /\ fileMetadata.ID \in DOMAIN fb
           /\ fb[fileMetadata.ID] = bytes

\* C7: when two PutFile calls of the same user u and file name f with different
\* (contentType, bytes) are in progress together and both have returned, f's
\* descriptor and bytes come from one of the two calls, GetFile(u, f) returns
\* that call's (bytes, contentType), and u's index holds exactly one entry f.
C7_ConcurrentSameFile ==
    [][(/\ Returned
        /\ last.op = "put" /\ last.err = "nil"
        /\ last'.op = "put" /\ last'.err = "nil" /\ last'.conc
        /\ last'.userID = last.userID /\ last'.filename = last.filename
        /\ <<last'.contentType, last'.bytes>> # <<last.contentType, last.bytes>>) =>
         \E c \in {last, last'} :
            /\ StoredFrom(UserFileBucket', FileBucket', c.userID, c.filename,
                          c.contentType, c.bytes)
            /\ GetFileResult(UserFileBucket', FileBucket', c.userID, c.filename) =
                  [bytes |-> c.bytes, contentType |-> c.contentType, present |-> TRUE]
            /\ Cardinality({m \in Members(UserFileBucket', c.userID) :
                               m.name = c.filename}) = 1
      ]_vars

\* C8: when two PutFile calls of the same user u for distinct file names fA and
\* fB are in progress together, both return nil and afterwards ListFilenames(u)
\* holds both fA and fB.
C8_ConcurrentDistinctFiles ==
    [][(/\ Returned
        /\ last.op = "put" /\ last.err = "nil"
        /\ last'.op = "put" /\ last'.conc
        /\ last'.userID = last.userID /\ last'.filename # last.filename) =>
         /\ last'.err = "nil"
         /\ {last.filename, last'.filename} \subseteq
               ListFilenamesResult(UserFileBucket', last'.userID)
      ]_vars

\* the stored record of u is the damaged one
IsCorrupt(ufb, u) == u \in DOMAIN ufb /\ ufb[u] = CorruptValue

\* C9: when the stored index record of a user fails to deserialize, what
\* ListFilenames returns differs from what it returns for a user without a
\* record, and what GetFile returns differs from what it returns for a file
\* that is not there.
C9_CorruptSurfaced ==
    [][(Returned /\ IsCorrupt(UserFileBucket, last'.userID)) =>
         /\ last'.op = "list" =>
               ListFilenamesResult(UserFileBucket', last'.userID)
                  # ListFilenamesResult(EmptyMap, last'.userID)
         /\ last'.op = "get" =>
               \A f \in FileNames :
                  GetFileResult(UserFileBucket', FileBucket', last'.userID, f)
                     # GetFileResult(EmptyMap, EmptyMap, last'.userID, f)
      ]_vars

\* what PutFile(u, f, contentType, bytes) would return and do to u's record and
\* to FileBucket
PutOutcome(ufb, fb, nid, u, f, contentType, bytes) ==
    LET r == PutFileTx(ufb, fb, nid, u, f, contentType, bytes, "none")
    IN  [err |-> r.err, fileID |-> r.fileID, record |-> Members(r.db.ufb, u),
         hasRecord |-> u \in DOMAIN r.db.ufb, fb |-> r.db.fb]

\* the databases in which the record of u1 is not damaged: u1 has no record, or
\* an index without files
Undamaged(ufb, u1) == {MapDelete(ufb, u1), MapPut(ufb, u1, Marshal(EmptyMap))}

\* the last step was bolt.Open returning: the database is the one the call
\* that opened it is going to work on
Opened == \E p \in Procs : pc[p] = "open" /\ pc'[p] = "tx"

\* C10: when the index record of user u1 fails to deserialize, PutFile(u1, ..)
\* and DeleteFile(u1, ..) return an error and leave both buckets unchanged, and
\* every operation of another user u2 returns what it would return, and does to
\* u2's record and to the bytes what it would do, were u1's record not damaged;
\* it leaves the damaged record as it is.
C10_CorruptionIsolation ==
    [][/\ (Returned /\ last'.op \in {"put", "delete"}
              /\ IsCorrupt(UserFileBucket, last'.userID)) =>
            /\ last'.err = "corrupt"
            /\ UserFileBucket' = UserFileBucket
            /\ FileBucket' = FileBucket
       /\ Returned =>
            \A u1 \in Users \ {last'.userID} :
               IsCorrupt(UserFileBucket, u1) => IsCorrupt(UserFileBucket', u1)
       /\ Opened =>
            \A u1 \in Users : IsCorrupt(UserFileBucket, u1) =>
               \A u2 \in Users \ {u1} : \A ok \in Undamaged(UserFileBucket, u1) :
                  /\ ListFilenamesResult(UserFileBucket, u2) = ListFilenamesResult(ok, u2)
                  /\ \A f \in CorruptFileNames :
                        /\ GetFileResult(UserFileBucket, FileBucket, u2, f)
                              = GetFileResult(ok, FileBucket, u2, f)
                        /\ DeleteOutcome(UserFileBucket, FileBucket, u2, f)
                              = DeleteOutcome(ok, FileBucket, u2, f)
                        /\ \A pl \in Payloads :
                              PutOutcome(UserFileBucket, FileBucket, nextID,
                                         u2, f, pl.contentType, pl.bytes)
                                 = PutOutcome(ok, FileBucket, nextID,
                                              u2, f, pl.contentType, pl.bytes)
      ]_vars

\* a write of a user with a damaged record has just been refused while another
\* user has files
C10_Witness ==
    /\ last.op \in {"put", "delete"} /\ last.err = "corrupt"
    /\ IsCorrupt(UserFileBucket, last.userID)
    /\ \E u2 \in Users \ {last.userID} : Members(UserFileBucket, u2) # {}

\* the (user, file name) entries of the decoded index records whose ID is id
Owners(ufb, id) ==
    {e \in {<<u, f>> : u \in DOMAIN ufb, f \in FileNames} :
        /\ CanUnmarshal(ufb[e[1]])
        /\ e[2] \in DOMAIN Unmarshal(ufb[e[1]])
        /\ Unmarshal(ufb[e[1]])[e[2]].ID = id}

\* C11: in every reachable state every key of FileBucket is the ID of exactly
\* one (user, file name) entry of the index records: no bytes are shared by two
\* entries and none are left without an entry.
C11_BlobOwnership ==
    \A id \in DOMAIN FileBucket : Cardinality(Owners(UserFileBucket, id)) = 1

\* C12: a DeleteFile(u, f) for a user u without an index record, when the
\* storage does not fail, returns nil and leaves both buckets as they were: u
\* has no record afterwards either.
C12_DeleteAbsentUser ==
    [][(/\ Returned /\ last'.op = "delete" /\ last'.err # "storage"
        /\ last'.userID \notin DOMAIN UserFileBucket) =>
         /\ last'.err = "nil"
         /\ UserFileBucket' = UserFileBucket
         /\ FileBucket' = FileBucket
         /\ last'.userID \notin DOMAIN UserFileBucket'
      ]_vars

\* a DeleteFile has just returned nil for a user without a record while another
\* user has files
C12_Witness ==
    /\ last.op = "delete" /\ last.err = "nil" /\ last.fileID = 0
    /\ last.userID \notin DOMAIN UserFileBucket
    /\ \E u \in Users : Members(UserFileBucket, u) # {}

\* C13: a DeleteFile(u, f) for a user u whose index record has no entry f
\* returns the error "file not found" and leaves both buckets as they were (so a
\* DeleteFile that returns nil for a user with a record found f in it); no step
\* removes an index record, so this is also what a DeleteFile returns once all
\* the files of u are deleted.
C13_DeleteMissingFile ==
    [][/\ (/\ Returned /\ last'.op = "delete"
           /\ last'.userID \in DOMAIN UserFileBucket) =>
            IF last'.err = "nil"
            THEN last'.filename \in DOMAIN Unmarshal(UserFileBucket[last'.userID])
            ELSE /\ last'.err = "file not found"
                 /\ \E f \in FileNames :
                       f \notin DOMAIN Unmarshal(UserFileBucket[last'.userID])
                 /\ UserFileBucket' = UserFileBucket
                 /\ FileBucket' = FileBucket
       /\ \A u \in DOMAIN UserFileBucket : u \in DOMAIN UserFileBucket'
       /\ Opened =>
            \A u \in DOMAIN UserFileBucket : \A f \in FileNames :
               f \notin DOMAIN Unmarshal(UserFileBucket[u]) =>
                  DeleteOutcome(UserFileBucket, FileBucket, u, f) =
                     [err |-> "file not found", fileID |-> 0,
                      record |-> Members(UserFileBucket, u), hasRecord |-> TRUE,
                      fb |-> FileBucket]
      ]_vars

\* a DeleteFile has just returned "file not found" for a user whose record
\* holds no files any more, while bytes of another user are stored
C13_Witness ==
    /\ last.op = "delete" /\ last.err = "file not found"
    /\ last.userID \in DOMAIN UserFileBucket
    /\ Members(UserFileBucket, last.userID) = {}
    /\ FileBucket # EmptyMap

\* C14: a ListFilenames(u) for a user u without an index record returns a list
\* that is not nil and holds no name, the same as for a user whose record holds
\* no files, and leaves both buckets as they were.
C14_ListAbsentUser ==
    [][(/\ Returned /\ last'.op = "list"
        /\ last'.userID \notin DOMAIN UserFileBucket) =>
         /\ ListFilenamesSlice(UserFileBucket, last'.userID) =
               [isNil |-> FALSE, names |-> {}]
         /\ ListFilenamesSlice(UserFileBucket, last'.userID) =
               ListFilenamesSlice(MapPut(UserFileBucket, last'.userID, Marshal(EmptyMap)),
                                  last'.userID)
         /\ UserFileBucket' = UserFileBucket
         /\ FileBucket' = FileBucket
      ]_vars

\* a ListFilenames has just returned for a user without a record while another
\* user has files
C14_Witness ==
    /\ last.op = "list" /\ last.userID \notin DOMAIN UserFileBucket
    /\ \E u \in Users : Members(UserFileBucket, u) # {}

\* what GetFile returns for a file that is not there
NotPresent == [bytes |-> <<>>, contentType |-> <<>>, present |-> FALSE]

\* C15: GetFile(u, f) returns the same result, no bytes, an empty contentType
\* and present = false, when u has no index record and when the record of u has
\* no entry f.
C15_UniformNotFound ==
    \A u \in Users : \A f \in FileNames :
        (u \notin DOMAIN UserFileBucket \/ f \notin DOMAIN Unmarshal(UserFileBucket[u])) =>
            GetNow(u, f) = NotPresent

\* a GetFile has just returned for a user whose record holds files and lacks a
\* name, while another user has no record
C15_Witness ==
    /\ last.op = "get"
    /\ Members(UserFileBucket, last.userID) # {}
    /\ \E f \in FileNames : f \notin DOMAIN Unmarshal(UserFileBucket[last.userID])
    /\ \E u1 \in Users : u1 \notin DOMAIN UserFileBucket

\* C16: operations of different users are in progress at the same time: while
\* a call is inside its transaction, a call of another goroutine, for whatever
\* user, that has reached bolt.Open is not kept waiting, it can open the
\* database as well.  (The user of a call plays no part in bolt.Open.)
C16_DifferentUsersConcurrent ==
    \A p \in Procs : \A q \in Procs \ {p} :
        (pc[p] = "tx" /\ pc[q] = "open") => ENABLED Open(q)

\* C17: of a finite set of calls invoked together, under fair scheduling every
\* call that waits at bolt.Open eventually has the database open, and every
\* call that has it open eventually finishes its transaction and returns.
C17_NoIndefiniteBlocking ==
    \A p \in LiveProcs :
        /\ (pc[p] = "open") ~> (pc[p] = "tx")
        /\ (pc[p] = "tx") ~> (pc[p] = "idle")

\* every call has returned, and the one that returned last was kept waiting
\* until the others had returned
C17_Witness ==
    /\ \A p \in LiveProcs : pc[p] = "idle"
    /\ last.conc

\* C19: in every reachable state the contentLength of every member of every
\* index record is the length of the bytes stored under the member's ID; and a
\* PutFile that returns nil, on a new name or on an overwrite, has stored its
\* bytes under an ID whose descriptor holds contentLength = len(bytes).
C19_ContentLength ==
    /\ [](\A u \in Users : \A m \in Members(UserFileBucket, u) :
             /\ m.id \in DOMAIN FileBucket
             /\ m.contentLength = Len(FileBucket[m.id]))
    /\ [][(Returned /\ last'.op = "put" /\ last'.err = "nil") =>
            /\ last'.fileID \in DOMAIN FileBucket'
            /\ FileBucket'[last'.fileID] = last'.bytes
            /\ \E m \in Members(UserFileBucket', last'.userID) :
                  m.id = last'.fileID /\ m.contentLength = Len(last'.bytes)
            /\ \A f \in DOMAIN Unmarshal(UserFileBucket'[last'.userID]) :
                  Unmarshal(UserFileBucket'[last'.userID])[f].ID = last'.fileID =>
                     Unmarshal(UserFileBucket'[last'.userID])[f].ContentLength
                        = Len(last'.bytes)
         ]_vars

\* a PutFile has just overwritten, under the same ID, the file the PutFile
\* before it had stored
C19_Witness ==
    /\ last.op = "put" /\ last.err = "nil"
    /\ last.prevPutID # 0 /\ last.prevPutID = last.fileID

\* C20: while a GetFile(u, f) of another goroutine is in progress, a PutFile
\* that overwrites the file f of u in place, or a DeleteFile of it, returns.
\* The GetFile has the database to itself before or after that call, so it
\* returns what the database held before or holds after: before, the bytes and
\* the contentType of one PutFile together; after, the (bytes, contentType) of
\* the overwriting PutFile, or present = false after the DeleteFile.
C20_SnapshotRead ==
    [][(/\ Returned /\ last'.inflight # {}
        /\ last'.op \in {"put", "delete"} /\ last'.err = "nil"
        /\ GetFileResult(UserFileBucket, FileBucket, last'.userID, last'.filename).present) =>
         LET old == GetFileResult(UserFileBucket, FileBucket, last'.userID, last'.filename)
             new == GetFileResult(UserFileBucket', FileBucket', last'.userID, last'.filename)
         IN  /\ \E pl \in Payloads :
                   old = [bytes |-> pl.bytes, contentType |-> pl.contentType,
                          present |-> TRUE]
             /\ IF last'.op = "put"
                THEN new = [bytes |-> last'.bytes, contentType |-> last'.contentType,
                            present |-> TRUE]
                ELSE new = NotPresent
      ]_vars

\* the token is one ValidateToken refuses: empty, without a stored session, or
\* with a stored session that is no JSON
BadToken(tb, t) == t = "" \/ t \notin DOMAIN tb \/ tb[t].kind # "json"

\* every /files request with a token ValidateToken refuses is answered 403,
\* whatever its method and path
Refused(tb) ==
    \A r \in FileRequests :
        BadToken(tb, r.token) => Dispatch(ValidateToken(tb, r.token), r) = 403

\* the file operation that doFiles calls for a method and a path
Routed(method, path) ==
    IF method = "PUT" THEN "put"
    ELSE IF method = "DELETE" THEN "delete"
    ELSE IF path = <<>> THEN "list" ELSE "get"

\* C18: doFiles calls a file operation only with the userID that ValidateToken
\* resolved the request's X-Session token to, and the operation runs for that
\* userID; a stored session names user u only since a successful Login of the
\* user whose ID is u stored it; a request whose token is empty, unknown or
\* undecodable is answered 403, whatever its method and path, and calls no file
\* operation.
C18_TokenGate ==
    /\ Refused(TokenBucket)
    /\ [](\A t \in DOMAIN TokenBucket :
             TokenBucket[t].kind = "json" =>
                \E n \in DOMAIN UserBucket : UserBucket[n].id = TokenBucket[t].user)
    /\ [][/\ TokenBucket' # TokenBucket => Refused(TokenBucket')
          /\ \A p \in SeqProcs :
                (pc[p] = "idle" /\ pc'[p] # "idle") =>
                   /\ ~BadToken(TokenBucket, req'[p].token)
                   /\ req'[p].userID = TokenBucket[req'[p].token].user
          /\ \A p \in SeqProcs :
                (pc[p] = "tx" /\ pc'[p] = "idle") =>
                   /\ last'.userID = req[p].userID
                   /\ last'.op = Routed(req[p].method, req[p].path)
          /\ \A t \in DOMAIN TokenBucket' :
                (/\ TokenBucket'[t].kind = "json"
                 /\ t \in DOMAIN TokenBucket => TokenBucket'[t] # TokenBucket[t]) =>
                   \E n \in DOMAIN UserBucket, password \in LoginPasswords :
                      /\ LoginTx(UserBucket, TokenBucket, n, password).err = "nil"
                      /\ LoginTx(UserBucket, TokenBucket, n, password).accessToken = t
                      /\ LoginTx(UserBucket, TokenBucket, n, password).tb = TokenBucket'
                      /\ UserBucket[n].id = TokenBucket'[t].user
       ]_vars

\* a file operation is in its transaction for the user of the request's token
\* while another token is the session of another user and a third is unknown
C18_Witness ==
    \E p \in SeqProcs :
        /\ pc[p] = "tx"
        /\ req[p].userID = TokenBucket[req[p].token].user
        /\ \E t \in DOMAIN TokenBucket :
              TokenBucket[t].kind = "json" /\ TokenBucket[t].user # req[p].userID
        /\ \E t \in SessionHeaders : t # "" /\ t \notin DOMAIN TokenBucket

\* C21: a file stored through doFiles can be fetched through it: when a PUT
\* with a session token has reached PutFile and PutFile returned nil, the next
\* request, a GET of the same user with the same path, the empty path included,
\* is served by GetFile with the file name the PUT stored under, and GetFile
\* returns the uploaded bytes.
C21_PutThenGet ==
    [][\A p \in SeqProcs :
          (/\ pc[p] = "tx" /\ pc'[p] = "idle"
           /\ req[p].method = "GET"
           /\ last.op = "put" /\ last.err = "nil"
           /\ req[p].userID = last.userID /\ req[p].path = last.filename) =>
             /\ last'.op = "get"
             /\ GetFileResult(UserFileBucket, FileBucket, req[p].userID, req[p].path)
                   = [bytes |-> last.bytes, contentType |-> last.contentType,
                      present |-> TRUE]
      ]_vars

====
